---------------------------- MODULE Spec2Model ----------------------------
(***************************************************************************)
(* Project lifecycle of gns3.main_window.MainWindow: the current project   *)
(* (temporary or persisted), its descriptor file and files directory, and  *)
(* the handlers that create, load, save and close it.                      *)
(*                                                                         *)
(* A path is a record [area, n, sfx]: a root (the n-th name of the temp    *)
(* area or of the projects directory) followed by the sequence of suffix   *)
(* tokens of its string (".gns3", ".net", "-files").  endswith, the slice  *)
(* path[:-5] and the concatenation + "-files" act on that sequence.        *)
(***************************************************************************)
EXTENDS Naturals, Sequences, FiniteSets, TLC

\* ------------------------------------------------------------------ bounds
\* Number of names tempfile.NamedTemporaryFile can hand out in one run.
MaxTemp == 1
\* Number of nodes the user places in the scene of one project.
MaxNodes == 1

\* ------------------------------------------------------------------- paths
None == [area |-> "none", n |-> 0, sfx |-> << >>]

TmpPath(i) == [area |-> "tmp", n |-> i, sfx |-> << >>]

UsrPath(i) == [area |-> "usr", n |-> i, sfx |-> << >>]

\* The project directory the user picks in the dialogs.
ProjDirs == {UsrPath(1)}

\* str.endswith(suffix)
EndsWith(p, t) == Len(p.sfx) > 0 /\ p.sfx[Len(p.sfx)] = t

\* path[:-len(suffix)] for a path that ends with the suffix
Strip(p) == [p EXCEPT !.sfx = SubSeq(p.sfx, 1, Len(p.sfx) - 1)]

\* path + suffix
Plus(p, t) == [p EXCEPT !.sfx = Append(p.sfx, t)]

\* os.path.splitext(path)[1]
Extension(p) ==
    IF Len(p.sfx) > 0 /\ p.sfx[Len(p.sfx)] \in {".gns3", ".net"}
    THEN p.sfx[Len(p.sfx)] ELSE ""

\* os.path.basename(project_dir)
BaseName(d) == [area |-> "name", n |-> d.n, sfx |-> << >>]

UnsavedName == [area |-> "name", n |-> 0, sfx |-> << >>]

\* ---------------------------------------------------------------- topology
NodeIds == {"R1", "SW1"}

\* hasattr(node, "start"): routers can be started, an Ethernet switch cannot.
HasStart(n) == n = "R1"

\* Topology.reset(): the empty topology.
EmptyTopology == [n \in {} |-> "stopped"]

\* Topology.dump(): what json.dump writes for the current topology.
Dump(s) == [kind |-> "json",
            rtype |-> s.project_settings.project_type,
            nodes |-> DOMAIN s.topology]

\* Topology.load(json_topology): the nodes of the descriptor, none running
\* except the devices that are always on.
TopologyLoad(c) == [n \in c.nodes |-> IF HasStart(n) THEN "stopped" ELSE "started"]

\* What a descriptor file can hold besides a dumped topology: JSON that
\* Topology.load rejects, or the remains of an interrupted write.
Rejected == [kind |-> "rejected", rtype |-> "local", nodes |-> {}]

Partial == [kind |-> "partial", rtype |-> "", nodes |-> {}]

\* ------------------------------------------------------------------- state
VARIABLES
    project_settings,    \* self._project_settings
    temporary_project,   \* self._temporary_project
    window_modified,     \* the Qt WA_WindowModified attribute
    topology,            \* Topology.instance(): node -> status
    files,               \* descriptor files on disk: path -> content
    dirs,                \* files directories on disk: path -> set of artifacts
    next_tmp,            \* names NamedTemporaryFile has handed out so far
    recent_files,        \* the "RecentFiles" array of QSettings
    pc,                  \* "startup", "startup_dialog", "idle" or "closed"
    signals,             \* signals emitted by the last handler, in order
    server_calls,        \* calls the last handler made on Servers, in order
    messages,            \* what the last handler showed the user, in order
    ignore_unsaved_state, \* self._ignore_unsaved_state
    dialog               \* the GettingStartedDialog and its connections

vars == << project_settings, temporary_project, window_modified, topology,
           files, dirs, next_tmp, recent_files, pc, signals, server_calls,
           messages, ignore_unsaved_state, dialog >>

\* The program state the methods read and write, as one record.
Cur == [project_settings |-> project_settings,
        temporary_project |-> temporary_project,
        window_modified |-> window_modified,
        topology |-> topology,
        files |-> files,
        dirs |-> dirs,
        next_tmp |-> next_tmp,
        recent_files |-> recent_files,
        signals |-> << >>,
        server_calls |-> << >>,
        messages |-> << >>]

Commit(s) ==
    /\ project_settings' = s.project_settings
    /\ temporary_project' = s.temporary_project
    /\ window_modified' = s.window_modified
    /\ topology' = s.topology
    /\ files' = s.files
    /\ dirs' = s.dirs
    /\ next_tmp' = s.next_tmp
    /\ recent_files' = s.recent_files
    /\ signals' = s.signals
    /\ server_calls' = s.server_calls
    /\ messages' = s.messages
    /\ UNCHANGED << ignore_unsaved_state, dialog >>

\* QMessageBox.critical / MessageBox / uiStatusBar.showMessage: a message
\* with a title and details.
Show(s, title, detail) ==
    [s EXCEPT !.messages = Append(@, [title |-> title, detail |-> detail])]

\* A call on Servers.instance() or on its local server.
Call(s, c) == [s EXCEPT !.server_calls = Append(@, c)]

\* signal.emit(path)
Emit(s, sig, path) ==
    [s EXCEPT !.signals = Append(@, [sig |-> sig, path |-> path])]

\* f with key k set to v, k in the domain or not.
Put(f, k, v) == [x \in DOMAIN f \cup {k} |-> IF x = k THEN v ELSE f[x]]

\* f without key k.
Drop(f, k) == [x \in DOMAIN f \ {k} |-> f[x]]


\* An empty file, as tempfile.NamedTemporaryFile leaves it.
Empty == [kind |-> "empty", rtype |-> "", nodes |-> {}]

\* ----------------------------------------------------------------- methods
\* Every method is an operator from the state record (and the outcomes of the
\* system calls and dialogs it runs into) to the state record it leaves; a
\* method that returns a value yields [s, ret], ret being "True", "False",
\* "None" (a bare return) or "raised" (an exception left the method).

\* uiGraphicsView.reset(): clears the scene and the topology.
GraphicsReset(s) == [s EXCEPT !.topology = EmptyTopology]

\* self._max_recent_files
MaxRecentFiles == 5

\* list.remove(x): the list without the first occurrence of x.
RemoveFirst(seq, x) ==
    LET i == CHOOSE k \in 1..Len(seq) :
                 seq[k] = x /\ \A j \in 1..(k - 1) : seq[j] # x
    IN  SubSeq(seq, 1, i - 1) \o SubSeq(seq, i + 1, Len(seq))

\* An _updateRecentFileSettings that does not remove the path from the list
\* before inserting it.
UpdateRecentFileSettings_keep(recent, path) ==
    LET r2 == << path >> \o recent
    IN  IF Len(r2) > MaxRecentFiles THEN SubSeq(r2, 1, Len(r2) - 1) ELSE r2

\* MainWindow._updateRecentFileSettings(path)
UpdateRecentFileSettings(recent, path) ==
    LET r1 == IF \E k \in 1..Len(recent) : recent[k] = path
              THEN RemoveFirst(recent, path) ELSE recent
        r2 == << path >> \o r1
    IN  IF Len(r2) > MaxRecentFiles THEN SubSeq(r2, 1, Len(r2) - 1) ELSE r2

\* MainWindow._setCurrentFile(path)
SetCurrentFile(s, path) ==
    IF path = None
    THEN [s EXCEPT !.temporary_project = TRUE,
                   !.window_modified = FALSE]
    ELSE [s EXCEPT !.temporary_project = FALSE,
                   !.recent_files = UpdateRecentFileSettings(@, path),
                   !.window_modified = FALSE]

\* MainWindow.saveProject(path).  w: "ok", "open_fails" (open(path, "w")
\* raises OSError) or "write_fails" (json.dump raises OSError after open
\* has created or truncated the file).
SaveProject(s, path, w) ==
    CASE w = "open_fails" ->
           [s |-> Show(s, "Save", {"Could not save project"}), ret |-> "False"]
      [] w = "write_fails" ->
           [s |-> Show([s EXCEPT !.files = Put(@, path, Partial)], "Save",
                       {"Could not save project"}),
            ret |-> "False"]
      [] OTHER ->
           LET s1 == [s EXCEPT !.files = Put(@, path, Dump(s)),
                               !.project_settings.project_path = path]
           IN  [s |-> SetCurrentFile(Show(s1, "Project saved", {"statusbar"}), path),
                ret |-> "True"]

\* A _deleteTemporaryProject that does not look at the temporary flag.
DeleteTemporaryProject_always(s, rm_ok, unlink_ok) ==
    IF s.project_settings.project_path # None
    THEN [s EXCEPT !.dirs = Drop(@, s.project_settings.project_files_dir),
                   !.files = Drop(@, s.project_settings.project_path)]
    ELSE s

\* A _deleteTemporaryProject that deletes nothing and logs nothing.
DeleteTemporaryProject_keep(s, rm_ok, unlink_ok) == s

\* MainWindow._deleteTemporaryProject().  rm_ok: shutil.rmtree removed the
\* files directory (its errors are ignored); unlink_ok: os.remove removed the
\* descriptor (its OSError is logged).
DeleteTemporaryProject(s, rm_ok, unlink_ok) ==
    IF s.temporary_project /\ s.project_settings.project_path # None
    THEN LET s1 == [s EXCEPT !.dirs = IF rm_ok
                                      THEN Drop(@, s.project_settings.project_files_dir)
                                      ELSE @]
         IN  IF unlink_ok
             THEN [s1 EXCEPT !.files = Drop(@, s.project_settings.project_path)]
             ELSE Show(s1, "log.warning", {"could not delete temporary topology file"})
    ELSE s

\* MainWindow._createTemporaryProject().  io: "ok", "tmpfile_fails"
\* (NamedTemporaryFile raises OSError) or "mkdir_fails" (os.mkdir raises
\* OSError after the file was created with delete=False).
CreateTemporaryProject(s, io) ==
    LET s0 == GraphicsReset(s)
        f == TmpPath(s.next_tmp + 1)
        project_files_dir == Plus(f, "-files")
        s1 == CASE io = "tmpfile_fails" -> Show(s0, "Save", {"Could not create project"})
                [] io = "mkdir_fails" /\ project_files_dir \notin DOMAIN s0.dirs ->
                     Show([s0 EXCEPT !.files = Put(@, f, Empty),
                                     !.next_tmp = @ + 1], "Save",
                          {"Could not create project"})
                [] OTHER ->
                     [s0 EXCEPT !.files = Put(@, f, Empty),
                                !.next_tmp = @ + 1,
                                !.dirs = IF project_files_dir \in DOMAIN @
                                         THEN @ ELSE Put(@, project_files_dir, {}),
                                !.project_settings.project_files_dir = project_files_dir,
                                !.project_settings.project_path = f]
    IN  SetCurrentFile(s1, None)


\* The derivation of the files directory in loadProject: the path without a
\* trailing ".gns3" or ".net", plus "-files".
FilesDirOf(path) ==
    LET project_files_dir == IF EndsWith(path, ".gns3") THEN Strip(path)
                             ELSE IF EndsWith(path, ".net") THEN Strip(path)
                             ELSE path
    IN  Plus(project_files_dir, "-files")

\* A loadProject for which every project is local.
ProjectTypeOf_local(json_topology) == "local"

\* The project type loadProject takes from json_topology["resources_type"].
ProjectTypeOf(json_topology) ==
    IF json_topology.rtype = "cloud" THEN "cloud" ELSE "local"

\* MainWindow.loadProject(path) for a path whose extension is not ".net".
\* fault: "open" (open(path) raises OSError), "mkdir" (os.makedirs of the
\* files directory raises OSError), anything else: no system call fails.
LoadCurrentFormat(s, path, fault) ==
    LET s0 == GraphicsReset(s)
    IN  IF path \notin DOMAIN s0.files \/ fault = "open"
        THEN [s |-> Show(s0, "Load", {"Could not load project"}), ret |-> "False"]
        ELSE
        LET json_topology == s0.files[path]
        IN  IF json_topology.kind \notin {"json", "rejected"}
            THEN [s |-> Show(s0, "Load", {"Invalid file"}), ret |-> "False"]
            ELSE
            LET s1 == [s0 EXCEPT !.project_settings.project_files_dir = FilesDirOf(path)]
                dir == s1.project_settings.project_files_dir
            IN  IF dir \notin DOMAIN s1.dirs /\ fault = "mkdir"
                THEN [s |-> Show(s1, "Load", {"Could not load project"}), ret |-> "False"]
                ELSE
                LET s2 == [s1 EXCEPT !.dirs = IF dir \in DOMAIN @ THEN @ ELSE Put(@, dir, {}),
                                     !.project_settings.project_type =
                                         ProjectTypeOf(json_topology)]
                IN  IF json_topology.kind = "rejected"
                    THEN [s |-> Show(s2, "Load", {"Invalid file"}), ret |-> "False"]
                    ELSE
                    LET s3 == [s2 EXCEPT !.topology = TopologyLoad(json_topology),
                                         !.project_settings.project_path = path]
                    IN  [s |-> SetCurrentFile(Show(s3, "Project loaded", {"statusbar"}), path),
                         ret |-> "True"]

\* Whether the project directory d holds anything (os.path.isdir(project_dir)).
ProjectDirExists(s, d) ==
    Plus(d, ".gns3") \in DOMAIN s.files \/ Plus(d, "-files") \in DOMAIN s.dirs

\* A _convertOldProject that announces the converted project and does not
\* load it.
ConvertOldProject_no_load(s, path, conv, d, fault) ==
    CASE conv = "no_converter" -> Show(s, "GNS3 converter", {"Please install gns3-converter"})
      [] conv = "cancelled" -> s
      [] conv = "convert_error" -> Show(s, "GNS3 converter", {"Could not convert"})
      [] conv = "exception" -> Show(s, "GNS3 converter", {"Unexpected exception"})
      [] OTHER ->
           Show([s EXCEPT !.files = Put(@, Plus(d, ".gns3"),
                                        [kind |-> "json", rtype |-> "local",
                                         nodes |-> {"R1"}])],
                "GNS3 converter", {"Your project has been converted"})

\* MainWindow._convertOldProject(path).  conv: "no_converter" (ImportError),
\* "cancelled" (the name dialog is dismissed), "convert_error", "exception",
\* or "ok"; d: the project directory the conversion writes to.
ConvertOldProject(s, path, conv, d, fault) ==
    CASE conv = "no_converter" -> Show(s, "GNS3 converter", {"Please install gns3-converter"})
      [] conv = "cancelled" -> s
      [] conv = "convert_error" -> Show(s, "GNS3 converter", {"Could not convert"})
      [] conv = "exception" -> Show(s, "GNS3 converter", {"Unexpected exception"})
      [] OTHER ->
           LET project_path == Plus(d, ".gns3")
               s1 == [s EXCEPT !.files = Put(@, project_path,
                                             [kind |-> "json", rtype |-> "local",
                                              nodes |-> {"R1"}])]
               s2 == Show(s1, "GNS3 converter", {"Your project has been converted"})
           IN  LoadCurrentFormat(s2, project_path, fault).s

\* MainWindow.loadProject(path)
LoadProject(s, path, in) ==
    IF Extension(path) = ".net"
    THEN [s |-> ConvertOldProject(GraphicsReset(s), path, in.conv, in.d, in.fault),
          ret |-> "None"]
    ELSE LoadCurrentFormat(s, path, in.fault)

\* NewProjectDialog.getNewProjectSettings(): the project named after the
\* directory d the user chose, of the type the user chose.
NewProjectSettings(d, type) ==
    [project_name |-> BaseName(d),
     project_path |-> Plus(d, ".gns3"),
     project_files_dir |-> Plus(d, "-files"),
     project_type |-> type]

\* MainWindow._createNewProject(new_project_settings).  fault: "mkdir"
\* (os.makedirs raises an OSError other than FileExistsError), "open" and
\* "write" (in saveProject).
CreateNewProject(s, new_project_settings, fault) ==
    LET s0 == GraphicsReset(s)
        dir == new_project_settings.project_files_dir
    IN  IF dir \notin DOMAIN s0.dirs /\ fault = "mkdir"
        THEN \* "...{}: {}".format(dir) has two fields and one argument:
             \* IndexError, before QMessageBox.critical is called.
             [s |-> s0, ret |-> "raised"]
        ELSE
        LET s1 == [s0 EXCEPT !.dirs = IF dir \in DOMAIN @ THEN @ ELSE Put(@, dir, {}),
                             !.project_settings = new_project_settings]
            w == IF fault = "open" THEN "open_fails"
                 ELSE IF fault = "write" THEN "write_fails" ELSE "ok"
        IN  [s |-> SaveProject(s1, new_project_settings.project_path, w).s,
             ret |-> "None"]


\* The stopped nodes, in place of the started ones.
RunningNodes_stopped(s) ==
    {n \in DOMAIN s.topology : HasStart(n) /\ s.topology[n] = "stopped"}

\* The nodes saveProjectAs refuses to move: those with a start method that
\* are started.
RunningNodes(s) ==
    {n \in DOMAIN s.topology : HasStart(n) /\ s.topology[n] = "started"}

\* ProcessFilesThread(source, destination, move) under the ProgressDialog:
\* the artifacts of `done` reach the destination; the others are left behind
\* by a per-file error or by the user's Cancel.
ProcessFiles(s, source, destination, move, done) ==
    IF source \notin DOMAIN s.dirs \/ source = destination
    THEN s
    ELSE LET moved == s.dirs[source] \cap done
         IN  [s EXCEPT !.dirs = [x \in DOMAIN @ |->
                  IF x = destination THEN @[x] \cup moved
                  ELSE IF x = source /\ move THEN @[x] \ moved
                  ELSE @[x]]]

\* saveProjectAs() with the error list of the transfer made fatal: it returns
\* after the message box.
FinishSaveAs_abort(s, errors, in, project_dir) ==
    IF errors
    THEN [s |-> Show(s, "Save project", {"Errors detected while saving the project"}),
          ret |-> "None"]
    ELSE LET s4 == DeleteTemporaryProject(s, in.rm_ok, in.unlink_ok)
             s5 == [s4 EXCEPT !.project_settings.project_files_dir = Plus(project_dir, "-files"),
                              !.project_settings.project_name = BaseName(project_dir)]
             w == IF in.fault = "open" THEN "open_fails"
                  ELSE IF in.fault = "write" THEN "write_fails" ELSE "ok"
         IN  SaveProject(s5, Plus(project_dir, ".gns3"), w)

\* MainWindow.saveProjectAs() once progress_dialog.exec_() has returned, its
\* result unused: the error list is shown, the temporary project deleted, the
\* settings pointed at the new files directory and the descriptor saved.
FinishSaveAs(s, errors, in, project_dir) ==
    LET s3 == IF errors
              THEN Show(s, "Save project", {"Errors detected while saving the project"})
              ELSE s
        s4 == DeleteTemporaryProject(s3, in.rm_ok, in.unlink_ok)
        s5 == [s4 EXCEPT !.project_settings.project_files_dir = Plus(project_dir, "-files"),
                         !.project_settings.project_name = BaseName(project_dir)]
        w == IF in.fault = "open" THEN "open_fails"
             ELSE IF in.fault = "write" THEN "write_fails" ELSE "ok"
    IN  SaveProject(s5, Plus(project_dir, ".gns3"), w)

\* MainWindow.saveProjectAs().  in.fault names the call that fails, if any:
\* "projects_mkdir", "dialog_rejected", "mkdir", "subdir", "open", "write";
\* in.d is the directory chosen in the file dialog, in.done what the transfer
\* gets through, in.cancel whether the user cancelled it, in.rm_ok and
\* in.unlink_ok what _deleteTemporaryProject manages to delete.
SaveProjectAs(s, in) ==
    LET running_nodes == RunningNodes(s)
        project_dir == in.d
        project_name == BaseName(project_dir)
        topology_file_path == Plus(project_dir, ".gns3")
        new_project_files_dir == Plus(project_dir, "-files")
        old == s.project_settings.project_files_dir
    IN  IF running_nodes # {}
        THEN [s |-> Show(s, "Save project", running_nodes), ret |-> "None"]
        ELSE IF in.fault = "projects_mkdir"
        THEN [s |-> Show(s, "Save project", {"Could not create the projects directory"}),
              ret |-> "None"]
        ELSE IF in.fault = "dialog_rejected"
        THEN [s |-> s, ret |-> "None"]
        ELSE IF new_project_files_dir \notin DOMAIN s.dirs /\ in.fault = "mkdir"
        THEN \* "...{}: {}".format(new_project_files_dir): IndexError
             [s |-> s, ret |-> "raised"]
        ELSE
        LET s1 == [s EXCEPT !.dirs = IF new_project_files_dir \in DOMAIN @
                                     THEN @ ELSE Put(@, new_project_files_dir, {})]
        IN  IF old = None
            THEN \* os.walk(None) / str.replace(None, ...): TypeError
                 [s |-> s1, ret |-> "raised"]
            ELSE IF in.fault = "subdir" /\ old \in DOMAIN s1.dirs /\ s1.dirs[old] # {}
            THEN [s |-> Show(s1, "Save project", {"Could not create project sub-directory"}),
                  ret |-> "None"]
            ELSE
            LET s2 == ProcessFiles(s1, old, new_project_files_dir,
                                   s1.temporary_project, in.done)
                errors == /\ old \in DOMAIN s1.dirs
                          /\ old # new_project_files_dir
                          /\ ~(s1.dirs[old] \subseteq in.done)
                          /\ ~in.cancel
            IN  FinishSaveAs(s2, errors, in, project_dir)

\* MainWindow.checkForUnsavedChanges().  reply: the button of the "Unsaved
\* changes" box, asked only when the window is modified.
CheckForUnsavedChanges(s, reply, in) ==
    LET w == IF in.fault = "open" THEN "open_fails"
             ELSE IF in.fault = "write" THEN "write_fails" ELSE "ok"
    IN  IF s.window_modified /\ reply = "Save"
        THEN IF s.temporary_project
             THEN SaveProjectAs(s, in)
             ELSE SaveProject(s, s.project_settings.project_path, w)
        ELSE IF s.window_modified /\ reply = "Cancel"
        THEN [s |-> s, ret |-> "False"]
        ELSE [s |-> DeleteTemporaryProject(s, in.rm_ok, in.unlink_ok), ret |-> "True"]


\* ------------------------------------------------------------------ inputs
\* What the files directory of a project can hold.
Artifacts == {"cfg", "nvram"}

LegacyPath == [area |-> "old", n |-> 1, sfx |-> << ".net" >>]

\* The paths the "Open project" dialog can return.
OpenPaths == {Plus(d, ".gns3") : d \in ProjDirs} \cup {LegacyPath}

DefaultIn == [fault |-> "none", d |-> UsrPath(1), done |-> Artifacts,
              cancel |-> FALSE, rm_ok |-> TRUE, unlink_ok |-> TRUE,
              conv |-> "ok"]

\* The outcomes _deleteTemporaryProject can meet in state s: the directory and
\* the descriptor are both removed, or neither is.
DeleteIns(s) ==
    IF s.temporary_project /\ s.project_settings.project_path # None
    THEN {[DefaultIn EXCEPT !.rm_ok = a, !.unlink_ok = a] : a \in BOOLEAN}
    ELSE {DefaultIn}

\* The outcomes saveProject can meet.
SaveIns == {[DefaultIn EXCEPT !.fault = f] : f \in {"none", "open", "write"}}

\* The outcomes saveProjectAs can meet in state s: the calls before the
\* transfer fail one at a time; the transfer, the deletion and the final
\* save vary together.
SaveAsIns(s) ==
    IF RunningNodes(s) # {}
    THEN {DefaultIn}
    ELSE {[DefaultIn EXCEPT !.fault = f] : f \in {"projects_mkdir", "dialog_rejected"}}
         \cup {[DefaultIn EXCEPT !.fault = f, !.d = d] :
                   f \in {"mkdir", "subdir"}, d \in ProjDirs}
         \cup {[del EXCEPT !.fault = f, !.d = d] :
                   f \in {"none", "open", "write"}, d \in ProjDirs,
                   del \in DeleteIns(s)}

\* The outcomes loadProject can meet for a path.
LoadIns(s, path) ==
    IF Extension(path) = ".net"
    THEN {[DefaultIn EXCEPT !.conv = c] :
              c \in {"no_converter", "cancelled", "convert_error", "exception"}}
         \cup {[DefaultIn EXCEPT !.d = d, !.fault = f] :
                   d \in {x \in ProjDirs : ~ProjectDirExists(s, x)},
                   f \in {"none", "open", "mkdir"}}
    ELSE {[DefaultIn EXCEPT !.fault = f] : f \in {"none", "open", "mkdir"}}

\* The button pressed in the "Unsaved changes" box, and what the call it
\* leads to can meet, in state s.
CheckIns(s) ==
    IF ~s.window_modified
    THEN {<< "Discard", in >> : in \in DeleteIns(s)}
    ELSE {<< "Cancel", DefaultIn >>}
         \cup {<< "Discard", in >> : in \in DeleteIns(s)}
         \cup {<< "Save", in >> : in \in IF s.temporary_project
                                          THEN SaveAsIns(s) ELSE SaveIns}


\* What the local-server sequence of startupLoading can meet: whether the
\* local server is connected already, whether the throwaway socket binds,
\* how server.connect() ends ("ok", an OSError with an errno, one without),
\* localServerAutoStart(), what localServerPath() names, whether
\* startLocalServer returns true, whether the wait dialog is accepted and
\* whether reconnect() succeeds.
BootInputs ==
    [connected : BOOLEAN, bind_ok : BOOLEAN,
     connect : {"ok", "errno", "no_errno"}, auto_start : BOOLEAN,
     path : {"empty", "missing", "not_executable", "ok"},
     spawn_ok : BOOLEAN, wait_ok : BOOLEAN, reconnect_ok : BOOLEAN]

\* The local-server sequence of MainWindow.startupLoading(), last part
\* first.  Each part yields [s, ret], ret "continue" when startupLoading goes
\* on to the temporary project, "return" when it returns.

\* A final reconnect that stops the server it could not reach.
BootReconnect_stop(s, b) ==
    LET s4 == Call(s, "reconnect")
    IN  [s |-> IF b.reconnect_ok THEN s4
               ELSE Call(Show(s4, "Local server",
                              {"Could not connect to the local server"}),
                         "stopLocalServer"),
         ret |-> "continue"]

\* A final reconnect whose failure ends startupLoading.
BootReconnect_fatal(s, b) ==
    LET s4 == Call(s, "reconnect")
    IN  IF b.reconnect_ok
        THEN [s |-> s4, ret |-> "continue"]
        ELSE [s |-> Show(s4, "Local server", {"Could not connect to the local server"}),
              ret |-> "return"]

\* servers.localServer().reconnect() and its except branch.
BootReconnect(s, b) ==
    LET s4 == Call(s, "reconnect")
    IN  [s |-> IF b.reconnect_ok THEN s4
               ELSE Show(s4, "Local server", {"Could not connect to the local server"}),
         ret |-> "continue"]

\* A spawn that goes on to the reconnect whatever the wait dialog returns.
BootSpawn_ignore_cancel(s, b) ==
    LET s2 == Call(s, "startLocalServer")
    IN  IF ~b.spawn_ok
        THEN [s |-> Show(s2, "Local server", {"Could not start the local server process"}),
              ret |-> "return"]
        ELSE BootReconnect(Call(s2, "wait"), b)

\* servers.startLocalServer(...), the wait for the connection under the
\* progress dialog, then the reconnect.
BootSpawn(s, b) ==
    LET s2 == Call(s, "startLocalServer")
    IN  IF ~b.spawn_ok
        THEN [s |-> Show(s2, "Local server", {"Could not start the local server process"}),
              ret |-> "return"]
        ELSE LET s3 == Call(s2, "wait")
             IN  IF ~b.wait_ok
                 THEN [s |-> s3, ret |-> "return"]
                 ELSE BootReconnect(s3, b)

\* A sequence that spawns whatever the server path names.
BootCheckPath_skip(s, b) ==
    IF ~b.auto_start
    THEN [s |-> s, ret |-> "return"]
    ELSE BootSpawn(s, b)

\* The tests on localServerAutoStart() and localServerPath() that precede
\* the spawn.
BootCheckPath(s, b) ==
    IF ~b.auto_start
    THEN [s |-> s, ret |-> "return"]
    ELSE IF b.path = "empty"
    THEN [s |-> Show(s, "log.info", {"no local server is configured"}),
          ret |-> "return"]
    ELSE IF b.path = "missing"
    THEN [s |-> Show(s, "Local server", {"Could not find local server"}),
          ret |-> "return"]
    ELSE IF b.path = "not_executable"
    THEN [s |-> Show(s, "Local server", {"is not an executable"}),
          ret |-> "return"]
    ELSE BootSpawn(s, b)

\* A sequence that takes a successful connect for a refused one.
Bootstrap_spawn_anyway(s, b) ==
    IF b.connected
    THEN [s |-> s, ret |-> "continue"]
    ELSE IF ~b.bind_ok
    THEN [s |-> Show(s, "Local server", {"Could not bind"}), ret |-> "return"]
    ELSE BootCheckPath(Call(s, "connect"), b)

\* The sequence from server.connected() on: the bind test, the connect
\* attempt and what follows its failure.
Bootstrap(s, b) ==
    IF b.connected
    THEN [s |-> s, ret |-> "continue"]
    ELSE IF ~b.bind_ok
    THEN [s |-> Show(s, "Local server", {"Could not bind"}), ret |-> "return"]
    ELSE
    LET s1 == Call(s, "connect")
    IN  IF b.connect = "ok"
        THEN [s |-> s1, ret |-> "continue"]
        ELSE IF b.connect = "no_errno"
        THEN [s |-> Show(s1, "Local server",
                         {"Something other than a GNS3 server is already running"}),
              ret |-> "return"]
        ELSE BootCheckPath(s1, b)

\* The sequence with nothing failing after the connect attempt was refused.
BootOk == [connected |-> FALSE, bind_ok |-> TRUE, connect |-> "errno",
           auto_start |-> TRUE, path |-> "ok", spawn_ok |-> TRUE,
           wait_ok |-> TRUE, reconnect_ok |-> TRUE]

\* One input per way through the sequence: it ends at the first outcome that
\* differs from BootOk.
BootIns ==
    {[BootOk EXCEPT !.connected = TRUE], [BootOk EXCEPT !.bind_ok = FALSE],
     [BootOk EXCEPT !.connect = "ok"], [BootOk EXCEPT !.connect = "no_errno"],
     [BootOk EXCEPT !.auto_start = FALSE], [BootOk EXCEPT !.path = "empty"],
     [BootOk EXCEPT !.path = "missing"], [BootOk EXCEPT !.path = "not_executable"],
     [BootOk EXCEPT !.spawn_ok = FALSE], [BootOk EXCEPT !.wait_ok = FALSE],
     [BootOk EXCEPT !.reconnect_ok = FALSE], BootOk}

\* ---------------------------------------------------------------- handlers
\* MainWindow._newProjectActionSlot().  ri: the reply to the "Unsaved
\* changes" box and what the call behind it meets; create_new_project: the
\* result of NewProjectDialog.exec_(); io: what _createTemporaryProject meets.
NewProjectActionSlot(s, ri, create_new_project, io) ==
    LET r == CheckForUnsavedChanges(s, ri[1], ri[2])
    IN  IF r.ret # "True"
        THEN r.s
        ELSE LET s1 == Emit(r.s, "project_about_to_close_signal",
                            r.s.project_settings.project_path)
                 \* line 409 passes the dialog's settings to
                 \* uiGraphicsView.reset and creates no project
                 s2 == IF create_new_project
                       THEN GraphicsReset(s1)
                       ELSE CreateTemporaryProject(s1, io)
             IN  Emit(s2, "project_new_signal", s2.project_settings.project_path)

\* MainWindow.openProjectActionSlot() for a non-empty path, and the part of
\* openRecentFileSlot() that follows the os.path.isfile test.
OpenProjectActionSlot(s, path, ri, in) ==
    LET r == CheckForUnsavedChanges(s, ri[1], ri[2])
    IN  IF r.ret # "True"
        THEN r.s
        ELSE LET s1 == Emit(r.s, "project_about_to_close_signal",
                            r.s.project_settings.project_path)
                 l == LoadProject(s1, path, in)
             IN  IF l.ret = "True"
                 THEN Emit(l.s, "project_new_signal", path)
                 ELSE l.s

\* MainWindow.openRecentFileSlot() for the action holding `path`.
OpenRecentFileSlot(s, path, ri, in) ==
    IF path \notin DOMAIN s.files
    THEN Show(s, "Recent file", {"no such file"})
    ELSE OpenProjectActionSlot(s, path, ri, in)

\* MainWindow._saveProjectActionSlot()
SaveProjectActionSlot(s, in) ==
    LET w == IF in.fault = "open" THEN "open_fails"
             ELSE IF in.fault = "write" THEN "write_fails" ELSE "ok"
    IN  IF s.temporary_project
        THEN SaveProjectAs(s, in)
        ELSE SaveProject(s, s.project_settings.project_path, w)

\* MainWindow.closeEvent(event): [s, ret], ret "True" when the event is
\* accepted.
CloseEvent(s, ri) ==
    LET r == CheckForUnsavedChanges(s, ri[1], ri[2])
    IN  IF r.ret = "True"
        THEN [s |-> Call(Emit(r.s, "project_about_to_close_signal",
                              r.s.project_settings.project_path),
                         "stopLocalServer"),
              ret |-> "True"]
        ELSE [s |-> r.s, ret |-> "False"]

\* A setUnsavedState that does not look at _ignore_unsaved_state.
SetUnsavedState_always(modified, ignore) == TRUE

\* MainWindow.setUnsavedState(): the value of the modified flag after it.
SetUnsavedState(modified, ignore) == IF ~ignore THEN TRUE ELSE modified

\* ------------------------------------------------- GettingStartedDialog
\* The seconds of the single-shot timer started in __init__.
TimerSeconds == 5

\* The runs of _loadFinishedSlot the model follows per dialog.
MaxRuns == 2

\* No GettingStartedDialog constructed yet; `setting` is the persisted
\* "GUI/show_getting_started_dialog".
NoDialog ==
    [phase |-> "none", load_finished_connected |-> FALSE,
     timeout_connected |-> FALSE, timer_active |-> FALSE, remaining |-> 0,
     loading |-> {}, page |-> "blank", checkbox |-> TRUE, setting |-> TRUE,
     runs |-> 0, local_loads |-> 0, accepts |-> 0, raised |-> FALSE]

\* GettingStartedDialog.__init__: both signals connected to
\* _loadFinishedSlot, the timer started, the remote page requested.
DialogInit(setting) ==
    [phase |-> "open", load_finished_connected |-> TRUE,
     timeout_connected |-> TRUE, timer_active |-> TRUE, remaining |-> TimerSeconds,
     loading |-> {"remote"}, page |-> "blank", checkbox |-> setting,
     setting |-> setting, runs |-> 0, local_loads |-> 0, accepts |-> 0,
     raised |-> FALSE]

\* GettingStartedDialog.done(result)
DialogDone(d) == [d EXCEPT !.setting = d.checkbox, !.phase = "done"]

\* A _loadFinishedSlot that leaves the timer running and connected.
LoadFinishedSlot_keep_timer(d, result, local_exists) ==
    IF ~d.load_finished_connected
    THEN [d EXCEPT !.runs = @ + 1, !.raised = TRUE]
    ELSE LET d1 == [d EXCEPT !.runs = @ + 1,
                             !.load_finished_connected = FALSE]
         IN  IF result THEN d1
             ELSE IF local_exists
             THEN [d1 EXCEPT !.loading = @ \cup {"local"}, !.local_loads = @ + 1]
             ELSE DialogDone([d1 EXCEPT !.accepts = @ + 1])

\* GettingStartedDialog._loadFinishedSlot(result).  local_exists: whether the
\* packaged getting_started.html is found.  Disconnecting a slot that is not
\* connected raises TypeError.
LoadFinishedSlot(d, result, local_exists) ==
    IF ~d.load_finished_connected
    THEN [d EXCEPT !.runs = @ + 1, !.raised = TRUE]
    ELSE IF ~d.timeout_connected
    THEN [d EXCEPT !.runs = @ + 1, !.raised = TRUE,
                   !.load_finished_connected = FALSE,
                   !.timer_active = FALSE]
    ELSE LET d1 == [d EXCEPT !.runs = @ + 1,
                             !.load_finished_connected = FALSE,
                             !.timer_active = FALSE,
                             !.timeout_connected = FALSE]
         IN  IF result THEN d1
             ELSE IF local_exists
             THEN [d1 EXCEPT !.loading = @ \cup {"local"}, !.local_loads = @ + 1]
             ELSE DialogDone([d1 EXCEPT !.accepts = @ + 1])

\* The dialog's slots leave the window's state alone.
WindowUnchanged ==
    UNCHANGED << project_settings, temporary_project, window_modified, topology,
                 files, dirs, next_tmp, recent_files, pc, signals, server_calls,
                 messages, ignore_unsaved_state >>

\* MainWindow._gettingStartedActionSlot(): a dialog is constructed.
OpenDialog ==
    /\ dialog.phase \in {"none", "done"}
    /\ dialog' = DialogInit(dialog.setting)
    /\ WindowUnchanged

\* A second of the single-shot timer passes.
Tick ==
    /\ dialog.timer_active
    /\ dialog.remaining > 0
    /\ dialog' = [dialog EXCEPT !.remaining = @ - 1]
    /\ WindowUnchanged

\* QTimer.timeout of the single-shot timer: the connected slot is called
\* with its default argument.
TimerTimeout(local_exists) ==
    /\ dialog.timer_active
    /\ dialog.remaining = 0
    /\ dialog.runs < MaxRuns
    /\ LET d == [dialog EXCEPT !.timer_active = FALSE]
       IN  dialog' = IF d.timeout_connected
                     THEN LoadFinishedSlot(d, FALSE, local_exists)
                     ELSE d
    /\ WindowUnchanged

\* QWebView.loadFinished(result) for a page load in flight: the connected
\* slot is called with the result.
LoadFinished(which, result, local_exists) ==
    /\ which \in dialog.loading
    /\ dialog.runs < MaxRuns
    /\ LET d == [dialog EXCEPT !.loading = @ \ {which},
                               !.page = IF result THEN which ELSE "error"]
       IN  dialog' = IF d.load_finished_connected
                     THEN LoadFinishedSlot(d, result, local_exists)
                     ELSE d
    /\ WindowUnchanged

\* The user ticks or unticks "show at startup".
ToggleCheckBox ==
    /\ dialog.phase = "open"
    /\ dialog' = [dialog EXCEPT !.checkbox = ~@]
    /\ WindowUnchanged

\* The user closes the dialog.
CloseDialog ==
    /\ dialog.phase = "open"
    /\ dialog' = DialogDone(dialog)
    /\ WindowUnchanged

NextDialog ==
    \/ OpenDialog
    \/ Tick
    \/ \E local_exists \in BOOLEAN : TimerTimeout(local_exists)
    \/ \E which \in {"remote", "local"}, result \in BOOLEAN, local_exists \in BOOLEAN :
          LoadFinished(which, result, local_exists)
    \/ ToggleCheckBox
    \/ CloseDialog

\* ----------------------------------------------------------------- actions
InitContents == {[kind |-> "json", rtype |-> "local", nodes |-> {}], Rejected}

\* MainWindow.__init__: no project yet; the disk and the persisted settings
\* are what earlier sessions left.
Init ==
    /\ project_settings = [project_name |-> UnsavedName,
                           project_path |-> None,
                           project_files_dir |-> None,
                           project_type |-> "local"]
    /\ temporary_project = TRUE
    /\ window_modified = FALSE
    /\ topology = EmptyTopology
    /\ \E c \in InitContents \cup {Empty} :
          files = IF c = Empty THEN [x \in {} |-> Empty]
                  ELSE [x \in {Plus(UsrPath(1), ".gns3")} |-> c]
    /\ dirs = [x \in {} |-> {}]
    /\ next_tmp = 0
    /\ recent_files \in {<< >>, << Plus(UsrPath(1), ".gns3") >>}
    /\ pc = "startup"
    /\ signals = << >>
    /\ server_calls = << >>
    /\ messages = << >>
    /\ ignore_unsaved_state = FALSE
    /\ dialog = NoDialog

\* MainWindow.startupLoading(), up to the new-project dialog.  b: what the
\* local-server sequence meets; auto: settings["auto_launch_project_dialog"];
\* io: what _createTemporaryProject meets.
StartupLoading(b, auto, io) ==
    /\ pc = "startup"
    /\ LET r == Bootstrap(Cur, b)
       IN  IF r.ret = "return"
           THEN /\ ~auto /\ io = "ok"
                /\ Commit(r.s)
                /\ pc' = "idle"
           ELSE /\ Commit(CreateTemporaryProject(r.s, io))
                /\ pc' = IF auto THEN "startup_dialog" ELSE "idle"

\* MainWindow.startupLoading(), from the return of NewProjectDialog.exec_().
StartupDialog(create_new_project, d, fault) ==
    /\ pc = "startup_dialog"
    /\ ~create_new_project => fault = "none"
    /\ IF create_new_project
       THEN LET r == CreateNewProject(Cur, NewProjectSettings(d, "local"), fault)
            IN  Commit(IF r.ret = "raised" THEN r.s
                       ELSE Emit(r.s, "project_new_signal",
                                 r.s.project_settings.project_path))
       ELSE Commit(Cur)
    /\ pc' = "idle"

NewProject(ri, create_new_project, io) ==
    /\ pc = "idle"
    /\ IF create_new_project THEN io = "ok"
       ELSE io = "tmpfile_fails" \/ next_tmp < MaxTemp
    /\ Commit(NewProjectActionSlot(Cur, ri, create_new_project, io))
    /\ UNCHANGED pc

OpenProject(path, ri, in) ==
    /\ pc = "idle"
    /\ Commit(OpenProjectActionSlot(Cur, path, ri, in))
    /\ UNCHANGED pc

OpenRecent(k, ri, in) ==
    /\ pc = "idle"
    /\ Commit(OpenRecentFileSlot(Cur, recent_files[k], ri, in))
    /\ UNCHANGED pc

Save(in) ==
    /\ pc = "idle"
    /\ Commit(SaveProjectActionSlot(Cur, in).s)
    /\ UNCHANGED pc

SaveAs(in) ==
    /\ pc = "idle"
    /\ Commit(SaveProjectAs(Cur, in).s)
    /\ UNCHANGED pc

Close(ri) ==
    /\ pc = "idle"
    /\ LET r == CloseEvent(Cur, ri)
       IN  /\ Commit(r.s)
           /\ pc' = IF r.ret = "True" THEN "closed" ELSE "idle"

\* The user adds a node to the scene: the view calls setUnsavedState().
AddNode ==
    /\ pc = "idle"
    /\ Cardinality(DOMAIN topology) < MaxNodes
    /\ \E n \in NodeIds \ DOMAIN topology :
          /\ topology' = Put(topology, n, IF HasStart(n) THEN "stopped" ELSE "started")
    /\ window_modified' = SetUnsavedState(window_modified, ignore_unsaved_state)
    /\ signals' = << >>
    /\ server_calls' = << >>
    /\ messages' = << >>
    /\ UNCHANGED << project_settings, temporary_project, files, dirs, next_tmp,
                    recent_files, pc, ignore_unsaved_state, dialog >>

\* A node with a start method is started or stopped.
StartStopNode ==
    /\ pc = "idle"
    /\ \E n \in DOMAIN topology :
          /\ HasStart(n)
          /\ topology' = [topology EXCEPT ![n] = IF @ = "started" THEN "stopped"
                                                 ELSE "started"]
    /\ signals' = << >>
    /\ server_calls' = << >>
    /\ messages' = << >>
    /\ UNCHANGED << project_settings, temporary_project, window_modified, files,
                    dirs, next_tmp, recent_files, pc, ignore_unsaved_state, dialog >>

Next ==
    \/ \E b \in BootIns, auto \in BOOLEAN,
          io \in {"ok", "tmpfile_fails", "mkdir_fails"} :
          StartupLoading(b, auto, io)
    \/ \E create_new_project \in BOOLEAN, d \in ProjDirs,
          fault \in {"none", "mkdir", "open", "write"} :
          StartupDialog(create_new_project, d, fault)
    \/ \E ri \in CheckIns(Cur), create_new_project \in BOOLEAN,
          io \in {"ok", "tmpfile_fails", "mkdir_fails"} :
          NewProject(ri, create_new_project, io)
    \/ \E path \in OpenPaths, ri \in CheckIns(Cur) :
          \E in \in LoadIns(CheckForUnsavedChanges(Cur, ri[1], ri[2]).s, path) :
             OpenProject(path, ri, in)
    \/ \E k \in 1..Len(recent_files), ri \in CheckIns(Cur) :
          \E in \in LoadIns(CheckForUnsavedChanges(Cur, ri[1], ri[2]).s, recent_files[k]) :
             OpenRecent(k, ri, in)
    \/ \E in \in IF temporary_project THEN SaveAsIns(Cur) ELSE SaveIns : Save(in)
    \/ \E in \in SaveAsIns(Cur) : SaveAs(in)
    \/ \E ri \in CheckIns(Cur) : Close(ri)
    \/ AddNode
    \/ StartStopNode

Spec == Init /\ [][Next]_vars

\* ------------------------------------------------------- the recent files
\* The descriptors that get saved or loaded: one more than the list holds.
RecentPaths == {Plus(UsrPath(i), ".gns3") : i \in 1..(MaxRecentFiles + 1)}

\* The paths the persisted list starts from.
StoredPaths == {Plus(UsrPath(i), ".gns3") : i \in 1..MaxRecentFiles}

\* The lists of at most MaxRecentFiles distinct stored paths.
StoredLists ==
    {q \in UNION {[1..k -> StoredPaths] : k \in 0..MaxRecentFiles} :
        \A i, j \in 1..Len(q) : q[i] = q[j] => i = j}

\* The window as constructed, the "RecentFiles" array any stored list.
InitRecent ==
    /\ project_settings = [project_name |-> UnsavedName,
                           project_path |-> None,
                           project_files_dir |-> None,
                           project_type |-> "local"]
    /\ temporary_project = TRUE
    /\ window_modified = FALSE
    /\ topology = EmptyTopology
    /\ files = [x \in {} |-> Empty]
    /\ dirs = [x \in {} |-> {}]
    /\ next_tmp = 0
    /\ recent_files \in StoredLists
    /\ pc = "idle"
    /\ signals = << >>
    /\ server_calls = << >>
    /\ messages = << >>
    /\ ignore_unsaved_state = FALSE
    /\ dialog = NoDialog

\* _updateRecentFileSettings(path), as _setCurrentFile calls it after a save
\* or a load of path.
UpdateRecent(path) ==
    /\ recent_files' = UpdateRecentFileSettings(recent_files, path)
    /\ UNCHANGED << project_settings, temporary_project, window_modified, topology,
                    files, dirs, next_tmp, pc, signals, server_calls, messages,
                    ignore_unsaved_state, dialog >>

NextRecent == \E path \in RecentPaths : UpdateRecent(path)

SpecRecent == InitRecent /\ [][NextRecent]_vars

\* The GettingStartedDialog on its own, the window left alone.
SpecDialog == Init /\ [][NextDialog]_vars

\* ---------------------------------------------- save-as with project files
\* The project directories picked in the "Save project" dialog.
TransferDirs == {UsrPath(1), UsrPath(2)}

\* The outcomes saveProjectAs can meet once the files directory holds
\* artifacts: the transfer gets through `done`, leaving the rest behind with a
\* per-file error or, with cancel, because the user stopped it; the deletion
\* and the final save vary as well.
TransferIns(s) ==
    {[del EXCEPT !.d = d, !.done = done, !.cancel = c, !.fault = f] :
        d \in TransferDirs, done \in SUBSET Artifacts, c \in BOOLEAN,
        f \in {"none", "open"}, del \in DeleteIns(s)}

\* startupLoading() with a local server connected already.
StartupConnected ==
    StartupLoading([BootOk EXCEPT !.connected = TRUE], FALSE, "ok")

\* A module writes a file of its own under project_files_dir.
WriteArtifact(a) ==
    /\ pc = "idle"
    /\ project_settings.project_files_dir \in DOMAIN dirs
    /\ a \notin dirs[project_settings.project_files_dir]
    /\ dirs' = [dirs EXCEPT ![project_settings.project_files_dir] = @ \cup {a}]
    /\ signals' = << >>
    /\ server_calls' = << >>
    /\ messages' = << >>
    /\ UNCHANGED << project_settings, temporary_project, window_modified, topology,
                    files, next_tmp, recent_files, pc, ignore_unsaved_state, dialog >>

NextTransfer ==
    \/ StartupConnected
    \/ \E a \in Artifacts : WriteArtifact(a)
    \/ \E in \in TransferIns(Cur) : SaveAs(in)

SpecTransfer == Init /\ [][NextTransfer]_vars

\* ------------------------------------------- projects of every resources type
\* The descriptors earlier sessions can have left: a local project, a cloud
\* project, one of another resources type, and JSON Topology.load rejects.
SessionContents ==
    {[kind |-> "json", rtype |-> rt, nodes |-> {}] : rt \in {"local", "cloud", "vm"}}
        \cup {Rejected}

\* MainWindow.__init__, with one descriptor on disk.
InitSession ==
    /\ project_settings = [project_name |-> UnsavedName,
                           project_path |-> None,
                           project_files_dir |-> None,
                           project_type |-> "local"]
    /\ temporary_project = TRUE
    /\ window_modified = FALSE
    /\ topology = EmptyTopology
    /\ \E c \in SessionContents : files = [x \in {Plus(UsrPath(1), ".gns3")} |-> c]
    /\ dirs = [x \in {} |-> {}]
    /\ next_tmp = 0
    /\ recent_files = << >>
    /\ pc = "startup"
    /\ signals = << >>
    /\ server_calls = << >>
    /\ messages = << >>
    /\ ignore_unsaved_state = FALSE
    /\ dialog = NoDialog

\* MainWindow.ignoreUnsavedState(value)
IgnoreUnsavedState(value) ==
    /\ pc = "idle"
    /\ ignore_unsaved_state' = value
    /\ signals' = << >>
    /\ server_calls' = << >>
    /\ messages' = << >>
    /\ UNCHANGED << project_settings, temporary_project, window_modified, topology,
                    files, dirs, next_tmp, recent_files, pc, dialog >>

\* MainWindow.rebootSlot(): QApplication.exit(exit_code_reboot) ends the
\* event loop; no close event is sent and nothing else is called.
RebootSlot ==
    /\ pc = "idle"
    /\ pc' = "closed"
    /\ signals' = << >>
    /\ server_calls' = << >>
    /\ messages' = << >>
    /\ UNCHANGED << project_settings, temporary_project, window_modified, topology,
                    files, dirs, next_tmp, recent_files, ignore_unsaved_state,
                    dialog >>

NextSession ==
    \/ StartupConnected
    \/ AddNode
    \/ \E value \in BOOLEAN : IgnoreUnsavedState(value)
    \/ \E path \in OpenPaths, ri \in CheckIns(Cur) :
          \E in \in LoadIns(CheckForUnsavedChanges(Cur, ri[1], ri[2]).s, path) :
             OpenProject(path, ri, in)
    \/ \E in \in IF temporary_project THEN SaveAsIns(Cur) ELSE SaveIns : Save(in)
    \/ \E ri \in CheckIns(Cur) : Close(ri)
    \/ RebootSlot

SpecSession == InitSession /\ [][NextSession]_vars

\* ------------------------------------------------------------- observations
\* The last handler showed a message with this title and this detail.
Shown(title, what) ==
    \E i \in 1..Len(messages) :
        messages[i].title = title /\ what \in messages[i].detail

\* The last handler emitted this signal.
Emitted(sig) == \E i \in 1..Len(signals) : signals[i].sig = sig

\* _deleteTemporaryProject could not delete what it was asked to delete.
DeleteWarned == Shown("log.warning", "could not delete temporary topology file")

\* The last handler emitted project_about_to_close_signal before every
\* project_new_signal it emitted.
ClosePrecedesNew ==
    \A i \in 1..Len(signals) :
        signals[i].sig = "project_new_signal"
            => \E j \in 1..(i - 1) : signals[j].sig = "project_about_to_close_signal"

\* The files directory the suffix convention derives from a descriptor path.
DerivedFilesDir(path) ==
    IF EndsWith(path, ".gns3") THEN Plus(Strip(path), "-files")
    ELSE Plus(path, "-files")

\* ------------------------------------------------------------------ claims
\* C1: loadProject is all-or-nothing.  Whenever a handler that had a project
\* and nothing to save ends with loadProject's error box ("Load"), project_path,
\* project_files_dir, project_type, the temporary flag and the topology are
\* what they were before the handler.
C1_LoadAllOrNothing ==
    [][ (/\ ~window_modified
         /\ project_settings.project_path # None
         /\ \E i \in 1..Len(messages') : messages'[i].title = "Load")
          => /\ project_settings'.project_path = project_settings.project_path
             /\ project_settings'.project_files_dir = project_settings.project_files_dir
             /\ project_settings'.project_type = project_settings.project_type
             /\ temporary_project' = temporary_project
             /\ topology' = topology ]_vars

\* C2: in every reachable state, a project flagged temporary whose path is set
\* has the descriptor and the files directory _createTemporaryProject made in
\* the temp area, so _deleteTemporaryProject never deletes at a user-chosen
\* location.
C2_TemporaryInTempArea ==
    (temporary_project /\ project_settings.project_path # None)
        => /\ project_settings.project_path.area = "tmp"
           /\ project_settings.project_path.sfx = << >>
           /\ project_settings.project_files_dir
                  = Plus(project_settings.project_path, "-files")

\* Every combination of outcomes saveProjectAs can be handed.
SaveAsInputs ==
    [fault : {"none", "projects_mkdir", "dialog_rejected", "mkdir", "subdir",
              "open", "write"},
     d : ProjDirs, done : SUBSET Artifacts, cancel : BOOLEAN,
     rm_ok : BOOLEAN, unlink_ok : BOOLEAN, conv : {"ok"}]

\* C3: whenever the topology holds a started node that has a start method,
\* saveProjectAs, whatever its other inputs, reports exactly the names of
\* those nodes and returns without changing the project settings, the
\* temporary flag, the modified flag, any file or any directory.
C3_SaveAsRefusesWhileRunning ==
    LET running == {n \in DOMAIN topology : HasStart(n) /\ topology[n] = "started"}
    IN  running # {} =>
          \A in \in SaveAsInputs :
             LET r == SaveProjectAs(Cur, in)
             IN  /\ r.ret = "None"
                 /\ r.s.messages = << [title |-> "Save project", detail |-> running] >>
                 /\ r.s.project_settings = project_settings
                 /\ r.s.temporary_project = temporary_project
                 /\ r.s.window_modified = window_modified
                 /\ r.s.files = files
                 /\ r.s.dirs = dirs

\* A save-as has just been refused because R1 is running.
C3_Witness ==
    /\ "R1" \in DOMAIN topology
    /\ topology["R1"] = "started"
    /\ messages = << [title |-> "Save project", detail |-> {"R1"}] >>
    /\ signals = << >>

\* C4: every emission of project_new_signal is preceded, in the handler that
\* emits it, by project_about_to_close_signal and, when the project it
\* supersedes was temporary, by the deletion of that project's descriptor and
\* files directory (unless the deletion itself failed).
C4_TeardownBeforeNewSignal ==
    [][ Emitted("project_new_signal")'
          => /\ ClosePrecedesNew'
             /\ (temporary_project /\ project_settings.project_path # None
                     /\ ~DeleteWarned')
                  => /\ project_settings.project_path \notin DOMAIN files'
                     /\ project_settings.project_files_dir \notin DOMAIN dirs' ]_vars

\* C5: after any completed operation, whenever project_path is set,
\* project_files_dir is the directory the suffix convention derives from it.
C5_FilesDirDerivedFromPath ==
    (pc = "idle" /\ project_settings.project_path # None)
        => project_settings.project_files_dir
               = DerivedFilesDir(project_settings.project_path)

\* C6: whenever the settings of a temporary project are replaced by those of
\* another project, the temporary project's descriptor and files directory
\* are gone from the disk (unless the deletion itself failed).
C6_SupersededTemporaryDeleted ==
    [][ (/\ temporary_project
         /\ project_settings.project_path # None
         /\ project_settings'.project_path # project_settings.project_path
         /\ ~DeleteWarned')
          => /\ project_settings.project_path \notin DOMAIN files'
             /\ project_settings.project_files_dir \notin DOMAIN dirs' ]_vars

\* C7: a new-project action that has a project to replace, gets past the
\* unsaved-changes question and
\* whose temporary project, if it makes one, can be created ends either with
\* the project of the dialog current (path and files directory of a chosen
\* project directory, not temporary, project_new_signal carrying that path)
\* or, the dialog rejected, with a fresh temporary project current.
C7_NewProjectReplacesWholesale ==
    [][ (/\ pc = "idle"
         /\ project_settings.project_path # None
         /\ Emitted("project_about_to_close_signal")'
         /\ Emitted("project_new_signal")'
         /\ ~Shown("Project loaded", "statusbar")'
         /\ ~Shown("Save", "Could not create project")')
          => \/ /\ ~temporary_project'
                /\ \E d \in ProjDirs :
                      /\ project_settings'.project_path = Plus(d, ".gns3")
                      /\ project_settings'.project_files_dir = Plus(d, "-files")
                /\ signals'[Len(signals')].path = project_settings'.project_path
             \/ /\ temporary_project'
                /\ project_settings'.project_path.area = "tmp"
                /\ project_settings'.project_path # project_settings.project_path
                /\ project_settings'.project_path \in DOMAIN files'
                /\ project_settings'.project_files_dir
                       = Plus(project_settings'.project_path, "-files")
                /\ project_settings'.project_files_dir \in DOMAIN dirs' ]_vars

\* C8: a save of a persisted project that succeeds leaves project_path at the
\* saved file, the project not temporary and the modified flag cleared; one
\* that fails leaves the file that was at the path with its previous content
\* and project_path, the temporary flag and the modified flag unchanged.
C8_SaveProjectContract ==
    [][ (~temporary_project /\ pc = "idle" /\ signals' = << >>)
          => /\ Shown("Project saved", "statusbar")'
                  => /\ ~temporary_project'
                     /\ ~window_modified'
                     /\ project_settings'.project_path \in DOMAIN files'
             /\ Shown("Save", "Could not save project")'
                  => /\ project_settings'.project_path = project_settings.project_path
                     /\ temporary_project' = temporary_project
                     /\ window_modified' = window_modified
                     /\ project_settings.project_path \in DOMAIN files
                          => /\ project_settings.project_path \in DOMAIN files'
                             /\ files'[project_settings.project_path]
                                    = files[project_settings.project_path] ]_vars

\* C9: _createNewProject goes on when the files directory already exists;
\* when creating it fails otherwise, it reports the error and returns with
\* the project settings and the temporary flag unmodified and no descriptor
\* written.
C9_CreateNewProjectOnMkdirError ==
    pc = "startup_dialog" =>
      \A d \in ProjDirs :
         LET new_project_settings == NewProjectSettings(d, "local")
             dir == new_project_settings.project_files_dir
         IN  IF dir \in DOMAIN dirs
             THEN CreateNewProject(Cur, new_project_settings, "none").s.project_settings
                      = new_project_settings
             ELSE LET r == CreateNewProject(Cur, new_project_settings, "mkdir")
                  IN  /\ r.ret = "None"
                      /\ r.s.messages # << >>
                      /\ r.s.project_settings = project_settings
                      /\ r.s.temporary_project = temporary_project
                      /\ r.s.files = files

\* A save or save-as of a temporary project has just succeeded.
SavedFromTemporary ==
    /\ temporary_project
    /\ project_settings.project_path # None
    /\ pc = "idle"
    /\ signals' = << >>
    /\ Shown("Project saved", "statusbar")'

\* What every successful save-as of a temporary project leaves behind.
PersistedAtChosenDir ==
    /\ ~temporary_project
    /\ ~window_modified
    /\ \E d \in ProjDirs :
          /\ project_settings.project_path = Plus(d, ".gns3")
          /\ project_settings.project_files_dir = Plus(d, "-files")
          /\ project_settings.project_path \in DOMAIN files

Surfaced(s) ==
    {i \in 1..Len(s.messages) : s.messages[i].title \notin {"log.warning", "log.info"}}

\* C11: _deleteTemporaryProject removes the files directory and the
\* descriptor exactly when the project is temporary and has a path, and
\* changes nothing otherwise; whatever the deletion meets, nothing is shown
\* to the user and checkForUnsavedChanges goes on to return True; a handler
\* that closes a persisted project leaves its descriptor and files directory
\* on disk.
C11_TeardownOnlyTemporary ==
    /\ [](\A rm_ok, unlink_ok \in BOOLEAN :
            LET r == DeleteTemporaryProject(Cur, rm_ok, unlink_ok)
                path == project_settings.project_path
                dir == project_settings.project_files_dir
                in == [DefaultIn EXCEPT !.rm_ok = rm_ok, !.unlink_ok = unlink_ok]
            IN  /\ (temporary_project /\ path # None)
                      => /\ rm_ok => dir \notin DOMAIN r.dirs
                         /\ unlink_ok => path \notin DOMAIN r.files
                         /\ \A f \in DOMAIN files \ {path} :
                               f \in DOMAIN r.files /\ r.files[f] = files[f]
                         /\ \A x \in DOMAIN dirs \ {dir} :
                               x \in DOMAIN r.dirs /\ r.dirs[x] = dirs[x]
                /\ ~(temporary_project /\ path # None)
                      => r.files = files /\ r.dirs = dirs /\ r.messages = << >>
                /\ r.project_settings = project_settings
                /\ r.temporary_project = temporary_project
                /\ Surfaced(r) = {}
                /\ CheckForUnsavedChanges(Cur, "Discard", in).ret = "True")
    /\ [][ (~temporary_project /\ Emitted("project_about_to_close_signal")')
             => /\ project_settings.project_path \in DOMAIN files
                     => project_settings.project_path \in DOMAIN files'
                /\ project_settings.project_files_dir \in DOMAIN dirs
                     => project_settings.project_files_dir \in DOMAIN dirs' ]_vars

\* The window has been closed on a persisted project, whose descriptor and
\* files directory are still there.
C11_Witness ==
    /\ pc = "closed"
    /\ ~temporary_project
    /\ Emitted("project_about_to_close_signal")
    /\ project_settings.project_path \in DOMAIN files
    /\ project_settings.project_files_dir \in DOMAIN dirs

\* State record s holds a call c on Servers.
Called(s, c) == \E i \in 1..Len(s.server_calls) : s.server_calls[i] = c

\* The number of calls c on Servers state record s holds.
Calls(s, c) == Cardinality({i \in 1..Len(s.server_calls) : s.server_calls[i] = c})

\* The inputs with which the sequence gets as far as the spawn.
ReachesSpawn(b) ==
    /\ ~b.connected /\ b.bind_ok /\ b.connect = "errno"
    /\ b.auto_start /\ b.path = "ok"

\* What the last handler showed the user, log records left out.
SurfacedNow ==
    {i \in 1..Len(messages) : messages[i].title \notin {"log.warning", "log.info"}}

\* C12: startupLoading calls startLocalServer only when the server was not
\* connected, the bind succeeded, the connect attempt failed with an errno,
\* auto-start is on and the server path names an executable file; a bind
\* failure, a port conflict and an empty server path each end the sequence
\* with nothing spawned.
C12_SpawnOnlyWhenNeeded ==
    pc = "startup" =>
      \A b \in BootInputs :
         LET r == Bootstrap(Cur, b)
         IN  /\ Called(r.s, "startLocalServer") => ReachesSpawn(b)
             /\ (~b.connected /\ ~b.bind_ok)
                  => r.ret = "return" /\ ~Called(r.s, "startLocalServer")
             /\ (~b.connected /\ b.bind_ok /\ b.connect = "no_errno")
                  => r.ret = "return" /\ ~Called(r.s, "startLocalServer")
             /\ (~b.connected /\ b.bind_ok /\ b.connect = "errno" /\ b.auto_start
                     /\ b.path # "ok")
                  => r.ret = "return" /\ ~Called(r.s, "startLocalServer")

\* startupLoading has spawned the server, reached it and made the temporary
\* project.
C12_Witness ==
    /\ pc # "startup"
    /\ server_calls = << "connect", "startLocalServer", "wait", "reconnect" >>
    /\ messages = << >>
    /\ project_settings.project_path # None

\* C13: when the local server is connected already, or the connect attempt
\* succeeds, the sequence ends as "already running": startupLoading goes on
\* with no spawn, no wait, no reconnect and no message.
C13_AlreadyRunning ==
    pc = "startup" =>
      \A b \in BootInputs :
         (b.connected \/ (b.bind_ok /\ b.connect = "ok"))
           => LET r == Bootstrap(Cur, b)
              IN  /\ r.ret = "continue"
                  /\ ~Called(r.s, "startLocalServer")
                  /\ ~Called(r.s, "wait")
                  /\ ~Called(r.s, "reconnect")
                  /\ r.s.messages = << >>

\* startupLoading found a server answering at the endpoint and made the
\* temporary project.
C13_Witness ==
    /\ pc # "startup"
    /\ server_calls = << "connect" >>
    /\ messages = << >>
    /\ temporary_project
    /\ project_settings.project_path # None

\* C14: one run of the sequence spawns the server at most once and never
\* stops it; the only handler that stops the local server is the accepted
\* close of the window.
C14_SpawnOnceNeverStop ==
    /\ [](pc = "startup" =>
            \A b \in BootInputs :
               LET r == Bootstrap(Cur, b)
               IN  /\ Calls(r.s, "startLocalServer") <= 1
                   /\ ~Called(r.s, "stopLocalServer"))
    /\ [][ Called([server_calls |-> server_calls'], "stopLocalServer")
             => pc = "idle" /\ pc' = "closed" ]_vars

\* startupLoading has returned after a spawn that failed, the server not
\* stopped.
C14_Witness ==
    /\ pc = "idle"
    /\ server_calls = << "connect", "startLocalServer" >>
    /\ Shown("Local server", "Could not start the local server process")

\* C15: every return from the local-server sequence other than auto-start
\* being off (and the user cancelling the wait) shows the user an error of
\* its own.
C15_EveryAbortSurfaced ==
    [][ (/\ pc = "startup"
         /\ project_settings'.project_path = None
         /\ SurfacedNow' = {})
          => /\ messages' = << >>
             /\ server_calls' \in {<< "connect" >>,
                                   << "connect", "startLocalServer", "wait" >>} ]_vars

\* C16: when the user cancels the wait for the spawned server, startupLoading
\* returns: no reconnect is attempted and the server is not stopped.
C16_CancelledWaitAborts ==
    pc = "startup" =>
      \A b \in BootInputs :
         (ReachesSpawn(b) /\ b.spawn_ok /\ ~b.wait_ok)
           => LET r == Bootstrap(Cur, b)
              IN  /\ r.ret = "return"
                  /\ Called(r.s, "startLocalServer")
                  /\ ~Called(r.s, "reconnect")
                  /\ ~Called(r.s, "stopLocalServer")

\* startupLoading has returned from a cancelled wait.
C16_Witness ==
    /\ pc = "idle"
    /\ server_calls = << "connect", "startLocalServer", "wait" >>
    /\ messages = << >>

\* State record s without what it showed the user.
Quiet(s) == [s EXCEPT !.messages = << >>]

\* C17: a failed final reconnect is shown to the user and changes nothing
\* else: startupLoading goes on, and the temporary project it makes is the
\* one it makes after a successful reconnect.
C17_HandshakeFailureNonFatal ==
    pc = "startup" =>
      \A b \in BootInputs :
         (ReachesSpawn(b) /\ b.spawn_ok /\ b.wait_ok)
           => LET bad == Bootstrap(Cur, [b EXCEPT !.reconnect_ok = FALSE])
                  ok == Bootstrap(Cur, [b EXCEPT !.reconnect_ok = TRUE])
              IN  /\ bad.ret = "continue" /\ ok.ret = "continue"
                  /\ Surfaced(bad.s) # {}
                  /\ Quiet(bad.s) = Quiet(ok.s)
                  /\ \A io \in {"ok", "tmpfile_fails", "mkdir_fails"} :
                        Quiet(CreateTemporaryProject(bad.s, io))
                            = Quiet(CreateTemporaryProject(ok.s, io))

\* startupLoading has made the temporary project after a final reconnect
\* that failed.
C17_Witness ==
    /\ pc # "startup"
    /\ Shown("Local server", "Could not connect to the local server")
    /\ temporary_project
    /\ project_settings.project_path \in DOMAIN files
    /\ project_settings.project_files_dir \in DOMAIN dirs

\* C18: whatever the local-server sequence meets, once startupLoading has
\* returned (its temporary file creatable) project_path and
\* project_files_dir are set.
C18_StartupAlwaysCreatesProject ==
    [][ (/\ pc = "startup"
         /\ pc' # "startup"
         /\ ~Shown("Save", "Could not create project")')
          => /\ project_settings'.project_path # None
             /\ project_settings'.project_files_dir # None ]_vars

\* State record s describes one project that is on disk: the files directory
\* is the one derived from the path, the temporary flag says where the path
\* lies, and the descriptor and the files directory exist.
ConsistentProject(s) ==
    /\ s.project_settings.project_path # None
    /\ s.project_settings.project_files_dir
          = DerivedFilesDir(s.project_settings.project_path)
    /\ s.temporary_project <=> (s.project_settings.project_path.area = "tmp")
    /\ s.project_settings.project_path \in DOMAIN s.files
    /\ s.project_settings.project_files_dir \in DOMAIN s.dirs

\* saveProjectAs, called in state record s with input in, transfers files
\* from the current files directory to another one.
Transfers(s, in) ==
    /\ RunningNodes(s) = {}
    /\ s.project_settings.project_files_dir \in DOMAIN s.dirs
    /\ s.project_settings.project_files_dir # Plus(in.d, "-files")

\* C19: when the transfer of saveProjectAs ends with per-file errors, the
\* errors are shown, the files it got through are in the new files directory,
\* and saveProjectAs goes on as after a complete transfer: same return value,
\* settings, flag and descriptors; with the descriptor writable, it is written
\* at the new location, which becomes the current, persisted project.
C19_PartialTransferNonFatal ==
    pc = "idle" =>
      \A in \in TransferIns(Cur) :
         LET old == project_settings.project_files_dir
             new == Plus(in.d, "-files")
             r == SaveProjectAs(Cur, in)
             full == SaveProjectAs(Cur, [in EXCEPT !.done = Artifacts])
         IN  (Transfers(Cur, in) /\ ~in.cancel /\ ~(dirs[old] \subseteq in.done))
               => /\ \E i \in 1..Len(r.s.messages) :
                        /\ r.s.messages[i].title = "Save project"
                        /\ "Errors detected while saving the project"
                               \in r.s.messages[i].detail
                  /\ new \in DOMAIN r.s.dirs
                  /\ (dirs[old] \cap in.done) \subseteq r.s.dirs[new]
                  /\ r.ret = full.ret
                  /\ r.s.project_settings = full.s.project_settings
                  /\ r.s.temporary_project = full.s.temporary_project
                  /\ r.s.files = full.s.files
                  /\ in.fault = "none"
                       => /\ r.ret = "True"
                          /\ r.s.project_settings.project_path = Plus(in.d, ".gns3")
                          /\ r.s.project_settings.project_files_dir = new
                          /\ r.s.files[Plus(in.d, ".gns3")] = Dump(r.s)
                          /\ ~r.s.temporary_project

\* A save-as whose transfer reported errors has made the new location the
\* current project, with the file that got through in its files directory.
C19_Witness ==
    /\ pc = "idle"
    /\ Shown("Save project", "Errors detected while saving the project")
    /\ Shown("Project saved", "statusbar")
    /\ ~temporary_project
    /\ project_settings.project_path \in DOMAIN files
    /\ project_settings.project_files_dir \in DOMAIN dirs
    /\ dirs[project_settings.project_files_dir] = {"cfg"}

\* C20: a saveProjectAs whose transfer the user cancels, called on a
\* consistent project, leaves the files already transferred in the
\* destination and a consistent project: path, files directory and temporary
\* flag describe one project whose descriptor and files directory exist.
C20_CancelLeavesConsistentState ==
    [][ \A in \in TransferIns(Cur) :
           (/\ pc = "idle"
            /\ ConsistentProject(Cur)
            /\ Transfers(Cur, in)
            /\ in.cancel
            /\ ~(dirs[project_settings.project_files_dir] \subseteq in.done)
            /\ Commit(SaveProjectAs(Cur, in).s))
             => /\ Plus(in.d, "-files") \in DOMAIN dirs'
                /\ (dirs[project_settings.project_files_dir] \cap in.done)
                       \subseteq dirs'[Plus(in.d, "-files")]
                /\ ConsistentProject(Cur)' ]_vars

\* C30: in a GettingStartedDialog _loadFinishedSlot runs at most once,
\* whichever of loadFinished and the timeout comes first: its run leaves
\* both disconnected and the timer stopped, so the local page is requested
\* at most once, the dialog accepted at most once, and no disconnect of an
\* unconnected slot is attempted.
C30_LoadFinishedSlotOnce ==
    /\ dialog.runs <= 1
    /\ dialog.local_loads <= 1
    /\ dialog.accepts <= 1
    /\ ~dialog.raised
    /\ dialog.runs = 1
         => /\ ~dialog.load_finished_connected
            /\ ~dialog.timeout_connected
            /\ ~dialog.timer_active

\* The timeout came first, the local page was requested and its loadFinished
\* has arrived, as has that of the remote page, without the slot running
\* again.
C30_Witness ==
    /\ dialog.phase = "open"
    /\ dialog.runs = 1
    /\ dialog.local_loads = 1
    /\ dialog.remaining = 0
    /\ dialog.loading = {}
    /\ dialog.page = "local"

\* The sequence q holds no element twice.
NoDuplicate(q) == \A i, j \in 1..Len(q) : q[i] = q[j] => i = j

\* The elements of the sequence q.
Range(q) == {q[i] : i \in 1..Len(q)}

\* C23: the recent-files list always holds at most MaxRecentFiles paths and
\* none twice; _updateRecentFileSettings(path) puts path first, keeps the
\* other paths in their order, and on a full list without path drops the
\* last, oldest entry.
C23_RecentFilesBounded ==
    /\ Len(recent_files) <= MaxRecentFiles
    /\ NoDuplicate(recent_files)
    /\ \A path \in RecentPaths :
          LET r == UpdateRecentFileSettings(recent_files, path)
              others == SelectSeq(recent_files, LAMBDA x : x # path)
          IN  /\ Len(r) <= MaxRecentFiles
              /\ NoDuplicate(r)
              /\ r[1] = path
              /\ Tail(r) = SubSeq(others, 1, Len(r) - 1)
              /\ path \in Range(recent_files) => Range(r) = Range(recent_files)
              /\ (path \notin Range(recent_files) /\ Len(recent_files) < MaxRecentFiles)
                   => Range(r) = Range(recent_files) \cup {path}
              /\ (path \notin Range(recent_files) /\ Len(recent_files) = MaxRecentFiles)
                   => Range(r) = (Range(recent_files) \ {recent_files[MaxRecentFiles]})
                                     \cup {path}

\* A sixth path has been put in front of a full list.
C23_Witness ==
    /\ Len(recent_files) = MaxRecentFiles
    /\ recent_files[1] = Plus(UsrPath(MaxRecentFiles + 1), ".gns3")

\* C27: when saveProjectAs has taken a temporary project to a new files
\* directory, every file the old temporary files directory held is in the new
\* directory or still in the old one.
C27_SaveAsLosesNoFile ==
    [][ (/\ pc = "idle"
         /\ temporary_project
         /\ project_settings.project_files_dir \in DOMAIN dirs
         /\ project_settings'.project_files_dir # project_settings.project_files_dir)
          => \A a \in dirs[project_settings.project_files_dir] :
                \/ /\ project_settings'.project_files_dir \in DOMAIN dirs'
                   /\ a \in dirs'[project_settings'.project_files_dir]
                \/ /\ project_settings.project_files_dir \in DOMAIN dirs'
                   /\ a \in dirs'[project_settings.project_files_dir] ]_vars

\* State record s holds a message with this title and this detail.
ShownIn(s, title, what) ==
    \E i \in 1..Len(s.messages) :
        s.messages[i].title = title /\ what \in s.messages[i].detail

\* C22: loadProject of a ".net" path converts.  A missing converter, a
\* ConvertError and any other exception are each reported, nothing leaves
\* loadProject as an exception, and project_path, project_files_dir and the
\* temporary flag stay as they were; after a conversion that succeeds the
\* converted ".gns3" file is loaded, and when that load succeeds the
\* converted project is the current one.
C22_LegacyConversion ==
    pc = "idle" =>
      \A in \in LoadIns(Cur, LegacyPath) :
         LET r == LoadProject(Cur, LegacyPath, in)
             converted == Plus(in.d, ".gns3")
         IN  /\ r.ret # "raised"
             /\ in.conv = "no_converter"
                  => ShownIn(r.s, "GNS3 converter", "Please install gns3-converter")
             /\ in.conv = "convert_error"
                  => ShownIn(r.s, "GNS3 converter", "Could not convert")
             /\ in.conv = "exception"
                  => ShownIn(r.s, "GNS3 converter", "Unexpected exception")
             /\ in.conv \in {"no_converter", "convert_error", "exception"}
                  => /\ r.s.project_settings.project_path = project_settings.project_path
                     /\ r.s.project_settings.project_files_dir
                            = project_settings.project_files_dir
                     /\ r.s.temporary_project = temporary_project
             /\ in.conv = "ok"
                  => /\ ShownIn(r.s, "GNS3 converter", "Your project has been converted")
                     /\ \/ ShownIn(r.s, "Project loaded", "statusbar")
                        \/ ShownIn(r.s, "Load", "Could not load project")
                        \/ ShownIn(r.s, "Load", "Invalid file")
                     /\ ShownIn(r.s, "Project loaded", "statusbar")
                          => /\ r.s.project_settings.project_path = converted
                             /\ r.s.project_settings.project_files_dir
                                    = DerivedFilesDir(converted)
                             /\ ~r.s.temporary_project
                             /\ r.s.topology = TopologyLoad(r.s.files[converted])

\* A ".net" file has been converted and the converted project loaded.
C22_Witness ==
    /\ pc = "idle"
    /\ Shown("GNS3 converter", "Your project has been converted")
    /\ Shown("Project loaded", "statusbar")
    /\ ~temporary_project
    /\ project_settings.project_path = Plus(UsrPath(1), ".gns3")
    /\ DOMAIN topology = {"R1"}

\* C25: a closeEvent on a modified project that checkForUnsavedChanges does
\* not let through (Cancel; Save with a failed save, with nodes running or
\* with the file dialog dismissed) is ignored and does nothing else: the
\* temporary project's files stay, project_about_to_close_signal is not
\* emitted and the local server is not stopped.
C25_RefusedCloseChangesNothing ==
    [][ \A ri \in CheckIns(Cur) :
           (/\ pc = "idle"
            /\ window_modified
            /\ CheckForUnsavedChanges(Cur, ri[1], ri[2]).ret \in {"False", "None"}
            /\ Commit(CloseEvent(Cur, ri).s))
             => /\ pc' = "idle"
                /\ ~Emitted("project_about_to_close_signal")'
                /\ server_calls' = << >>
                /\ temporary_project
                     => /\ project_settings.project_path \in DOMAIN files
                             => project_settings.project_path \in DOMAIN files'
                        /\ project_settings.project_files_dir \in DOMAIN dirs
                             => project_settings.project_files_dir \in DOMAIN dirs' ]_vars

\* The current project is temporary and its descriptor or its files
\* directory is not on disk.
TemporaryWithoutFiles ==
    /\ temporary_project
    /\ project_settings.project_path # None
    /\ \/ project_settings.project_path \notin DOMAIN files
       \/ project_settings.project_files_dir \notin DOMAIN dirs

\* C28: a user operation that leaves the window open never leaves a
\* temporary project current whose descriptor or files directory it has
\* deleted.
C28_TemporaryProjectKeepsFiles ==
    [][ (pc = "idle" /\ pc' = "idle" /\ ~TemporaryWithoutFiles)
          => ~TemporaryWithoutFiles' ]_vars

\* The last handler emitted this signal with this path.
EmittedWith(sig, path) ==
    \E i \in 1..Len(signals) : signals[i].sig = sig /\ signals[i].path = path

\* C29: an open that loaded a project, a converted ".net" project included,
\* emits project_new_signal with the path of the project now current; an
\* open whose load failed emits no project_new_signal.
C29_NewSignalIffLoaded ==
    [][ (pc = "idle" /\ project_settings.project_path # None)
          => /\ Shown("Project loaded", "statusbar")'
                  => EmittedWith("project_new_signal",
                                 project_settings.project_path)'
             /\ (\/ Shown("Load", "Could not load project")'
                 \/ Shown("Load", "Invalid file")'
                 \/ Shown("GNS3 converter", "Could not convert")'
                 \/ Shown("GNS3 converter", "Unexpected exception")'
                 \/ Shown("GNS3 converter", "Please install gns3-converter")')
                  => ~Emitted("project_new_signal")' ]_vars

\* C21: a loadProject of a ".gns3" descriptor that succeeds sets project_type
\* to "cloud" exactly when resources_type is "cloud" and to "local"
\* otherwise, project_path to the path, project_files_dir to the derived
\* "-files" directory, which exists afterwards, and leaves the project not
\* temporary and not modified.
C21_LoadSetsProject ==
    pc = "idle" =>
      \A path \in OpenPaths \ {LegacyPath} :
       \A in \in LoadIns(Cur, path) :
         LET r == LoadProject(Cur, path, in)
         IN  r.ret = "True"
               => /\ r.s.project_settings.project_type
                        = IF files[path].rtype = "cloud" THEN "cloud" ELSE "local"
                  /\ r.s.project_settings.project_path = path
                  /\ r.s.project_settings.project_files_dir = DerivedFilesDir(path)
                  /\ DerivedFilesDir(path) \in DOMAIN r.s.dirs
                  /\ ~r.s.temporary_project
                  /\ ~r.s.window_modified

\* A cloud project has been loaded.
C21_Witness ==
    /\ pc = "idle"
    /\ Shown("Project loaded", "statusbar")
    /\ project_settings.project_type = "cloud"
    /\ project_settings.project_path = Plus(UsrPath(1), ".gns3")
    /\ project_settings.project_files_dir \in DOMAIN dirs
    /\ ~temporary_project
    /\ ~window_modified

\* C24: the modified flag is false after a saveProject that succeeds, a
\* loadProject that loads and every _createTemporaryProject; a saveProject or
\* loadProject that fails leaves it as it was; setUnsavedState sets it unless
\* ignoreUnsavedState(True) is in force, and then leaves it as it was.
C24_ModifiedFlag ==
    /\ [](pc = "idle" =>
            /\ \A w \in {"ok", "open_fails", "write_fails"} :
                  LET r == SaveProject(Cur, Plus(UsrPath(1), ".gns3"), w)
                  IN  r.s.window_modified
                          = IF r.ret = "True" THEN FALSE ELSE window_modified
            /\ \A path \in OpenPaths :
                  \A in \in LoadIns(Cur, path) :
                     LET r == LoadProject(Cur, path, in)
                     IN  r.s.window_modified
                             = IF ShownIn(r.s, "Project loaded", "statusbar")
                               THEN FALSE ELSE window_modified
            /\ \A io \in {"ok", "tmpfile_fails", "mkdir_fails"} :
                  ~CreateTemporaryProject(Cur, io).window_modified)
    /\ [][ (pc = "idle" /\ DOMAIN topology' # DOMAIN topology
              /\ DOMAIN topology \subseteq DOMAIN topology'
              /\ project_settings' = project_settings /\ messages' = << >>)
             => window_modified' = IF ignore_unsaved_state THEN window_modified
                                   ELSE TRUE ]_vars

\* A node was added to the unmodified temporary project while
\* ignoreUnsavedState(True) was in force.
C24_Witness ==
    /\ pc = "idle"
    /\ ignore_unsaved_state
    /\ ~window_modified
    /\ temporary_project
    /\ DOMAIN topology # {}

\* The step is a slot whose checkForUnsavedChanges got, on the modified
\* project, the answer Discard, or the answer Save followed by a save that
\* succeeded.
AnsweredDiscardOrSaved ==
    \E ri \in CheckIns(Cur) :
       /\ ri[1] \in {"Discard", "Save"}
       /\ CheckForUnsavedChanges(Cur, ri[1], ri[2]).ret = "True"
       /\ \/ \E create_new_project \in BOOLEAN, io \in {"ok", "tmpfile_fails", "mkdir_fails"} :
                Commit(NewProjectActionSlot(Cur, ri, create_new_project, io))
          \/ \E path \in OpenPaths \cup Range(recent_files) :
                \E in \in LoadIns(CheckForUnsavedChanges(Cur, ri[1], ri[2]).s, path) :
                   \/ Commit(OpenProjectActionSlot(Cur, path, ri, in))
                   \/ Commit(OpenRecentFileSlot(Cur, path, ri, in))
          \/ Commit(CloseEvent(Cur, ri).s)

\* The step is a save the user asked for that succeeded.
SavedByUser ==
    \E in \in IF temporary_project THEN SaveAsIns(Cur) ELSE SaveIns :
       LET r == SaveProjectActionSlot(Cur, in)
       IN  r.ret = "True" /\ Commit(r.s)

\* C26: a modified project is abandoned by the end of the application, or
\* stops being the modified current project, only in a slot that asked the
\* user and got Discard, or got Save and saved, or in a save that succeeded.
C26_NoSilentLoss ==
    [][ (/\ pc = "idle"
         /\ window_modified
         /\ \/ pc' = "closed"
            \/ ~window_modified'
            \/ project_settings'.project_path # project_settings.project_path)
          => AnsweredDiscardOrSaved \/ SavedByUser ]_vars

=============================================================================
